---- MODULE Spec2Model ----
(***************************************************************************)
(* Model of tag_quiz.py: a console quiz on Penn Treebank part-of-speech    *)
(* tags.  quiz() samples a window of parsed sentences (get_sents), strips  *)
(* the "-NONE-" leaves (parsed_to_tagged), asks the user to tag each       *)
(* sentence (sentence_quiz) and prints a final score and the frequently    *)
(* mistagged tags.                                                         *)
(*                                                                         *)
(* A character is a one-character string, a tag or an input line is a      *)
(* sequence of characters, a leaf is a pair <<token, tag>>, a tree is the  *)
(* sequence of its leaves (what Tree.pos() yields), a corpus is a sequence *)
(* of trees.  A Python dict is the sequence of its <<key, value>> items in *)
(* insertion order.                                                        *)
(***************************************************************************)
EXTENDS Integers, Sequences, FiniteSets, TLC

\* ------------------------------------------------------------------ bounds
MaxCorpus == 2      \* longest corpus
MaxLeaves == 2      \* most leaves in one tree
MaxLine == 3        \* longest line the user types

\* ------------------------------------------------------------- input sets
NONE == <<"-", "N", "O", "N", "E", "-">>

GoldTags == { <<"N">>, <<"V">>, NONE }

Tokens == { "w" }

Leaves == Tokens \X GoldTags

RECURSIVE SeqsOfLen(_, _)
SeqsOfLen(S, n) ==
    IF n = 0 THEN { <<>> }
    ELSE { Append(s, x) : s \in SeqsOfLen(S, n - 1), x \in S }

SeqsFromTo(S, lo, hi) == UNION { SeqsOfLen(S, n) : n \in lo..hi }

Trees == SeqsFromTo(Leaves, 1, MaxLeaves)

Corpora == SeqsFromTo(Trees, 1, MaxCorpus)

Counts == (0 - 1)..(MaxCorpus + 1)

LineChars == { "n", "N", " " }

Lines == SeqsFromTo(LineChars, 0, MaxLine)

\* ------------------------------------------------------- Python built-ins
\* str.upper(), one character
UpperChar(c) ==
    CASE c = "n" -> "N"
      [] c = "v" -> "V"
      [] OTHER -> c

\* a fold that leaves the letters as typed
Upper_m(s) == s

\* str.upper()
Upper(s) == [i \in 1..Len(s) |-> UpperChar(s[i])]

\* str.split() with no argument: the maximal runs of non-blank characters
RECURSIVE SplitFrom(_, _, _, _)
SplitFrom(s, i, word, acc) ==
    IF i > Len(s)
    THEN IF word = <<>> THEN acc ELSE Append(acc, word)
    ELSE IF s[i] = " "
         THEN SplitFrom(s, i + 1, <<>>, IF word = <<>> THEN acc ELSE Append(acc, word))
         ELSE SplitFrom(s, i + 1, Append(word, s[i]), acc)

Split(s) == SplitFrom(s, 1, <<>>, <<>>)

\* an index of a slice: a negative one counts from the end, then clamp
SliceIndex(i, n) ==
    IF i < 0 THEN (IF i + n < 0 THEN 0 ELSE i + n)
    ELSE IF i > n THEN n ELSE i

\* s[a : b] of a Python sequence (0-based, b exclusive)
PySlice(s, a, b) ==
    LET lo == SliceIndex(a, Len(s))
        hi == SliceIndex(b, Len(s))
    IN  IF lo < hi THEN SubSeq(s, lo + 1, hi) ELSE <<>>

\* a draw that can land one past the last admissible start
RandintRange_m(a, b) == a..(b + 1)

\* randint(a, b): the values it can return; it raises ValueError when empty
RandintRange(a, b) == a..b

\* --------------------------------------------------------- parsed_to_tagged
\* a filter that tests for the marker without its closing dash
RECURSIVE TaggedSent_m(_, _, _)
TaggedSent_m(pos, i, tagged_sent) ==
    IF i > Len(pos) THEN tagged_sent
    ELSE TaggedSent_m(pos, i + 1,
                      IF pos[i][2] # <<"-", "N", "O", "N", "E">>
                      THEN Append(tagged_sent, pos[i])
                      ELSE tagged_sent)

RECURSIVE TaggedSent(_, _, _)
TaggedSent(pos, i, tagged_sent) ==
    IF i > Len(pos) THEN tagged_sent
    ELSE TaggedSent(pos, i + 1,
                    IF pos[i][2] # NONE THEN Append(tagged_sent, pos[i])
                    ELSE tagged_sent)

RECURSIVE ParsedToTaggedLoop(_, _, _)
ParsedToTaggedLoop(parsed_sents, i, tagged_sents) ==
    IF i > Len(parsed_sents) THEN tagged_sents
    ELSE ParsedToTaggedLoop(parsed_sents, i + 1,
                            Append(tagged_sents, TaggedSent(parsed_sents[i], 1, <<>>)))

parsed_to_tagged(parsed_sents) == ParsedToTaggedLoop(parsed_sents, 1, <<>>)

\* ------------------------------------------------------------ sentence_quiz
TagsOf(tagged_sent) == [i \in 1..Len(tagged_sent) |-> tagged_sent[i][2]]

TokensOf(tagged_sent) == [i \in 1..Len(tagged_sent) |-> tagged_sent[i][1]]

\* zip(tokens, tags, guess_tags): as long as the shortest of the three
MinLen(a, b) == IF Len(a) < Len(b) THEN Len(a) ELSE Len(b)

Zip3(tokens, tags, guesses) ==
    [i \in 1..MinLen(tags, guesses) |-> <<tokens[i], tags[i], guesses[i]>>]

\* the loop that collects the wrongly tagged tokens
RECURSIVE Incorrect(_, _, _)
Incorrect(tokens_guesses, i, incorrect) ==
    IF i > Len(tokens_guesses) THEN incorrect
    ELSE Incorrect(tokens_guesses, i + 1,
                   IF tokens_guesses[i][2] # tokens_guesses[i][3]
                   THEN Append(incorrect, tokens_guesses[i])
                   ELSE incorrect)

IncorrectOf(tagged_sent, guesses) ==
    Incorrect(Zip3(TokensOf(tagged_sent), TagsOf(tagged_sent), guesses), 1, <<>>)

MistakesOf(incorrect) == [i \in 1..Len(incorrect) |-> <<incorrect[i][2], incorrect[i][3]>>]

\* the tuple sentence_quiz returns: (correct, len(tags), mistakes)
SentenceResult(tagged_sent, guesses) ==
    LET incorrect == IncorrectOf(tagged_sent, guesses)
    IN  << Len(tagged_sent) - Len(incorrect), Len(tagged_sent), MistakesOf(incorrect) >>

\* what input("> ").upper().split() makes of a typed line
GuessTags(ln) == Split(Upper(ln))

\* ------------------------------------------------------------------- state
VARIABLES
    corpus,          \* argument of quiz
    sentences,       \* argument of quiz
    pc,              \* position of the run
    error,           \* the exception that ended the run, or "none"
    start_point,     \* get_sents: the drawn index
    parsed,          \* quiz: the window get_sents returned
    tagged,          \* quiz: the tagged sentences
    results,         \* quiz: one tuple per graded sentence
    sent_num,        \* quiz: number of the sentence being asked
    line,            \* sentence_quiz: the line the user typed last
    guess_tags,      \* sentence_quiz: the tags of that line
    message,         \* sentence_quiz: the last "too many" / "too few" report
    report           \* quiz: the final figures

vars == << corpus, sentences, pc, error, start_point, parsed, tagged, results,
           sent_num, line, guess_tags, message, report >>

NoReport ==
    [ total_correct |-> 0, total_attempted |-> 0, mistagged |-> <<>>,
      overused |-> <<>>, header |-> FALSE, frequent |-> <<>> ]

Init ==
    /\ corpus \in Corpora
    /\ sentences \in Counts
    /\ pc = "get_sents"
    /\ error = "none"
    /\ start_point = 0
    /\ parsed = <<>>
    /\ tagged = <<>>
    /\ results = <<>>
    /\ sent_num = 0
    /\ line = <<>>
    /\ guess_tags = <<>>
    /\ message = "none"
    /\ report = NoReport

\* get_sents(corpus, number = sentences)
GetSents ==
    /\ pc = "get_sents"
    /\ LET length_corpus == Len(corpus)
       IN  IF RandintRange(0, length_corpus - sentences) = {}
           THEN /\ pc' = "error"
                /\ error' = "ValueError"
                /\ UNCHANGED << start_point, parsed >>
           ELSE /\ \E sp \in RandintRange(0, length_corpus - sentences) :
                      /\ start_point' = sp
                      /\ parsed' = PySlice(corpus, sp, sp + sentences)
                /\ pc' = "parsed_to_tagged"
                /\ error' = error
    /\ UNCHANGED << corpus, sentences, tagged, results, sent_num, line,
                    guess_tags, message, report >>

\* quiz: tagged = parsed_to_tagged(parsed); results = []; sent_num = 0
ParsedToTagged ==
    /\ pc = "parsed_to_tagged"
    /\ tagged' = parsed_to_tagged(parsed)
    /\ results' = <<>>
    /\ sent_num' = 0
    /\ pc' = "for"
    /\ UNCHANGED << corpus, sentences, error, start_point, parsed, line,
                    guess_tags, message, report >>

\* quiz: the head of "for sentence in tagged", up to the call of
\* sentence_quiz, whose locals are fresh
NextSentence ==
    /\ pc = "for"
    /\ IF sent_num < Len(tagged)
       THEN /\ sent_num' = sent_num + 1
            /\ pc' = "input"
       ELSE /\ sent_num' = sent_num
            /\ pc' = "report"
    /\ line' = <<>>
    /\ guess_tags' = <<>>
    /\ message' = "none"
    /\ UNCHANGED << corpus, sentences, error, start_point, parsed, tagged,
                    results, report >>

\* a loop that also lets a response with too many tags through
Respond_m(ln) ==
    /\ pc = "input"
    /\ line' = ln
    /\ guess_tags' = GuessTags(ln)
    /\ LET num_tokens == Len(TokensOf(tagged[sent_num]))
       IN  IF Len(guess_tags') >= num_tokens
           THEN /\ pc' = "grade"
                /\ message' = message
           ELSE /\ pc' = "input"
                /\ message' = "too_few"
    /\ UNCHANGED << corpus, sentences, error, start_point, parsed, tagged,
                    results, sent_num, report >>

\* sentence_quiz: one turn of "while not all_tagged", the user typing ln
Respond(ln) ==
    /\ pc = "input"
    /\ line' = ln
    /\ guess_tags' = GuessTags(ln)
    /\ LET num_tokens == Len(TokensOf(tagged[sent_num]))
       IN  IF Len(guess_tags') = num_tokens
           THEN /\ pc' = "grade"
                /\ message' = message
           ELSE IF Len(guess_tags') > num_tokens
           THEN /\ pc' = "input"
                /\ message' = "too_many"
           ELSE /\ pc' = "input"
                /\ message' = "too_few"
    /\ UNCHANGED << corpus, sentences, error, start_point, parsed, tagged,
                    results, sent_num, report >>

\* sentence_quiz after the loop, and results.append(...) in quiz.  The
\* percentage of the score line divides by len(tags).
Grade ==
    /\ pc = "grade"
    /\ LET tagged_sent == tagged[sent_num]
           tags == TagsOf(tagged_sent)
       IN  IF Len(tags) = 0
           THEN /\ pc' = "error"
                /\ error' = "ZeroDivisionError"
                /\ results' = results
           ELSE /\ pc' = "for"
                /\ error' = error
                /\ results' = Append(results, SentenceResult(tagged_sent, guess_tags))
    /\ UNCHANGED << corpus, sentences, start_point, parsed, tagged, sent_num,
                    line, guess_tags, message, report >>

\* ------------------------------------------------------ the final figures
RECURSIVE SumField(_, _, _)
SumField(rs, f, i) ==
    IF i > Len(rs) THEN 0 ELSE rs[i][f] + SumField(rs, f, i + 1)

DictHas(d, key) == \E i \in 1..Len(d) : d[i][1] = key

\* a count that starts again at 1 on a key it already holds
DictCount_m(d, key) ==
    IF DictHas(d, key)
    THEN [i \in 1..Len(d) |-> IF d[i][1] = key THEN <<key, 1>> ELSE d[i]]
    ELSE Append(d, <<key, 1>>)

\* if key in d.keys(): d[key] += 1, else: d[key] = 1
DictCount(d, key) ==
    IF DictHas(d, key)
    THEN [i \in 1..Len(d) |-> IF d[i][1] = key THEN <<key, d[i][2] + 1>> ELSE d[i]]
    ELSE Append(d, <<key, 1>>)

\* for (correct, mistake) in mistakes
RECURSIVE CountMistakes(_, _, _)
CountMistakes(mistakes, i, acc) ==
    IF i > Len(mistakes) THEN acc
    ELSE CountMistakes(mistakes, i + 1,
                       [ mistagged |-> DictCount(acc.mistagged, mistakes[i][1]),
                         overused  |-> DictCount(acc.overused, mistakes[i][2]) ])

\* for mistakes in mistakes_list
RECURSIVE CountResults(_, _, _)
CountResults(rs, i, acc) ==
    IF i > Len(rs) THEN acc
    ELSE CountResults(rs, i + 1, CountMistakes(rs[i][3], 1, acc))

RECURSIVE SumValues(_, _)
SumValues(d, i) == IF i > Len(d) THEN 0 ELSE d[i][2] + SumValues(d, i + 1)

\* average = sum(values) / len(mistagged), kept as the exact quotient num / den
Average(mistagged) == [ num |-> SumValues(mistagged, 1), den |-> Len(mistagged) ]

\* a strict comparison with the average
GeqAverage_m(n, average) == n * average.den > average.num

\* n >= average
GeqAverage(n, average) == n * average.den >= average.num

\* for key in mistagged.keys(): if mistagged[key] >= average: print
RECURSIVE Frequent(_, _, _, _)
Frequent(mistagged, average, i, printed) ==
    IF i > Len(mistagged) THEN printed
    ELSE Frequent(mistagged, average, i + 1,
                  IF GeqAverage(mistagged[i][2], average)
                  THEN Append(printed, mistagged[i])
                  ELSE printed)

\* quiz after the loop.  The percentage of the final score line divides by
\* total_attempted.
Report ==
    /\ pc = "report"
    /\ LET total_correct == SumField(results, 1, 1)
           total_attempted == SumField(results, 2, 1)
           counts == CountResults(results, 1, [mistagged |-> <<>>, overused |-> <<>>])
       IN  IF total_attempted = 0
           THEN /\ pc' = "error"
                /\ error' = "ZeroDivisionError"
                /\ report' = [ report EXCEPT !.total_correct = total_correct,
                                             !.total_attempted = total_attempted ]
           ELSE /\ pc' = "done"
                /\ error' = error
                /\ report' =
                     [ total_correct |-> total_correct,
                       total_attempted |-> total_attempted,
                       mistagged |-> counts.mistagged,
                       overused |-> counts.overused,
                       header |-> Len(counts.mistagged) > 0,
                       frequent |-> IF Len(counts.mistagged) > 0
                                    THEN Frequent(counts.mistagged,
                                                  Average(counts.mistagged), 1, <<>>)
                                    ELSE <<>> ]
    /\ UNCHANGED << corpus, sentences, start_point, parsed, tagged, results,
                    sent_num, line, guess_tags, message >>

Next ==
    \/ GetSents
    \/ ParsedToTagged
    \/ NextSentence
    \/ \E ln \in Lines : Respond(ln)
    \/ Grade
    \/ Report

Spec == Init /\ [][Next]_vars

\* the runs in which every step of the program is eventually taken and the
\* user, asked again and again, eventually types a line of the right length
ValidRespond == \E ln \in Lines : Respond(ln) /\ pc' = "grade"

Program == GetSents \/ ParsedToTagged \/ NextSentence \/ Grade \/ Report

LiveSpec == Init /\ [][Next]_vars /\ WF_vars(Program) /\ SF_vars(ValidRespond)

\* ------------------------------------------------------------- vocabulary
ValidCount == 1 <= sentences /\ sentences <= Len(corpus)

Sampled == pc \notin { "get_sents" } /\ ~(pc = "error" /\ error = "ValueError")

Normalized == Sampled /\ pc # "parsed_to_tagged"

\* the sentence sentence_quiz is working on
Sentence == tagged[sent_num]

\* the last sentence has been graded and its result appended
JustGraded == pc = "for" /\ sent_num >= 1 /\ Len(results) = sent_num

\* two strings that differ at most in the case of their letters
LetterPairs == { {"n", "N"}, {"v", "V"} }

SameUpToCase(a, b) ==
    /\ Len(a) = Len(b)
    /\ \A i \in 1..Len(a) : a[i] = b[i] \/ {a[i], b[i]} \in LetterPairs

TagChars == { "N", "n", "V", "v" }

\* the sentences that differ from tagged_sent at most in the case of the tags
CaseVariants(tagged_sent) ==
    { s2 \in SeqsOfLen(Tokens \X SeqsFromTo(TagChars, 1, 1), Len(tagged_sent)) :
        \A i \in 1..Len(tagged_sent) :
            /\ s2[i][1] = tagged_sent[i][1]
            /\ SameUpToCase(s2[i][2], tagged_sent[i][2]) }

\* the positions sentence_quiz counts as mistakes
MistakePositions(tagged_sent, guesses) ==
    { i \in 1..MinLen(tagged_sent, guesses) : TagsOf(tagged_sent)[i] # guesses[i] }

\* all mistakes of the run, as positions <<sentence, index>> into results
MistakeAt == { <<i, j>> : i \in 1..Len(results), j \in 1..MaxLeaves + 1 }

AllMistakes == { p \in MistakeAt : p[2] <= Len(results[p[1]][3]) }

GoldCount(t) == Cardinality({ p \in AllMistakes : results[p[1]][3][p[2]][1] = t })

GuessCount(g) == Cardinality({ p \in AllMistakes : results[p[1]][3][p[2]][2] = g })

GoldMistaken == { results[p[1]][3][p[2]][1] : p \in AllMistakes }

GuessMistaken == { results[p[1]][3][p[2]][2] : p \in AllMistakes }

Keys(d) == { d[i][1] : i \in 1..Len(d) }

\* d is a dict: no key twice
IsDict(d) == \A i, j \in 1..Len(d) : d[i][1] = d[j][1] => i = j

Taggable(leaf) == leaf[2] # NONE

\* ------------------------------------------------------------------ claims

\* C1: grading a sentence S against a guess sequence of the same length
\* returns a result with total_count = length(S) and
\* correct_count + length(mistakes) = length(S).
C1_GradeCounts ==
    [][ pc = "grade" =>
          /\ Len(results') = Len(results) + 1
          /\ LET r == results'[Len(results')]
             IN  /\ r[2] = Len(Sentence)
                 /\ r[1] + Len(r[3]) = Len(Sentence) ]_vars

C4_EmptySentenceGraded ==
    [][ pc = "grade" /\ Len(Sentence) = 0 =>
          /\ pc' # "error"
          /\ error' = "none"
          /\ results' = Append(results, << 0, 0, <<>> >>) ]_vars

\* C5: with a count that is not positive or exceeds the length of the
\* corpus, sampling fails: no window is returned, no sentence is asked or
\* graded.
C5_InvalidCountFails ==
    ~ValidCount =>
        /\ pc \in { "get_sents", "error" }
        /\ pc = "error" => error = "ValueError"
        /\ parsed = <<>>
        /\ tagged = <<>>
        /\ sent_num = 0
        /\ results = <<>>

\* C6: with 1 <= count <= length(corpus) the window is the slice
\* [start, start + count) of the corpus for a start in
\* 0 .. length(corpus) - count: count sentences, in corpus order.
C6_Window ==
    ValidCount /\ Sampled =>
        /\ 0 <= start_point
        /\ start_point <= Len(corpus) - sentences
        /\ Len(parsed) = sentences
        /\ \A i \in 1..sentences : parsed[i] = corpus[start_point + i]

\* a window that starts after the first sentence of the corpus
C6_Witness ==
    /\ Sampled
    /\ ValidCount
    /\ Len(corpus) = 2
    /\ sentences = 1
    /\ start_point = 1
    /\ corpus[1] # corpus[2]
    /\ parsed = << corpus[2] >>

\* C7: the normalizer returns one sentence per tree, in order, each being
\* the leaves of its tree whose tag is not "-NONE-", in order; no entry is
\* tagged "-NONE-"; a tree without taggable leaf gives the empty sentence.
C7_Normalize ==
    Normalized =>
        /\ Len(tagged) = Len(parsed)
        /\ \A i \in 1..Len(parsed) :
              /\ tagged[i] = SelectSeq(parsed[i], Taggable)
              /\ \A j \in 1..Len(tagged[i]) : tagged[i][j][2] # NONE
              /\ (\A j \in 1..Len(parsed[i]) : parsed[i][j][2] = NONE)
                    => tagged[i] = <<>>

\* a window with a tree that loses its first leaf and keeps its second, and
\* a tree that loses every leaf
C7_Witness ==
    /\ Normalized
    /\ Len(parsed) = 2
    /\ parsed[1] = << <<"w", NONE>>, <<"w", <<"V">> >> >>
    /\ tagged[1] = << <<"w", <<"V">> >> >>
    /\ parsed[2] = << <<"w", NONE>> >>
    /\ tagged[2] = <<>>

\* C8: at the end of a run mistagged maps each gold tag to the number of
\* mistakes on it and overused each guessed tag to the number of mistakes
\* with it; a tag without mistake is in neither; the values of each sum to
\* the number of mistakes, which is total_attempted - total_correct.
C8_Counts ==
    pc = "done" =>
        /\ IsDict(report.mistagged) /\ IsDict(report.overused)
        /\ Keys(report.mistagged) = GoldMistaken
        /\ Keys(report.overused) = GuessMistaken
        /\ \A i \in 1..Len(report.mistagged) :
              report.mistagged[i][2] = GoldCount(report.mistagged[i][1])
        /\ \A i \in 1..Len(report.overused) :
              report.overused[i][2] = GuessCount(report.overused[i][1])
        /\ SumValues(report.mistagged, 1) = Cardinality(AllMistakes)
        /\ SumValues(report.overused, 1) = Cardinality(AllMistakes)
        /\ Cardinality(AllMistakes) = report.total_attempted - report.total_correct

\* a run that ends with two mistakes on V and one on N, two of them with
\* the guess N
C8_Witness ==
    /\ pc = "done"
    /\ report.mistagged = << << <<"V">>, 2 >>, << <<"N">>, 1 >> >>
    /\ report.overused = << << <<"N">>, 2 >>, << <<"N", "N">>, 1 >> >>

\* C9: the tags reported as frequently mistagged are exactly the gold tags
\* whose number of mistakes is at least the mean over the mistaken gold
\* tags; without mistake the report is skipped and the run still ends; with
\* a mistake at least one tag is reported.
C9_Frequent ==
    /\ pc = "done" =>
          LET tags == GoldMistaken
              total == Cardinality(AllMistakes)
          IN  /\ tags = {} => ~report.header /\ report.frequent = <<>>
              /\ tags # {} =>
                    /\ report.header
                    /\ IsDict(report.frequent)
                    /\ Keys(report.frequent)
                         = { t \in tags : GoldCount(t) * Cardinality(tags) >= total }
                    /\ report.frequent # <<>>
    /\ pc = "error" /\ error = "ZeroDivisionError" /\ Len(results) = Len(tagged)
          => results = <<>>

\* a run that ends with one mistake on V and one on N: both are at the mean
\* and both are reported
C9_Witness ==
    /\ pc = "done"
    /\ report.mistagged = << << <<"V">>, 1 >>, << <<"N">>, 1 >> >>
    /\ report.frequent = report.mistagged

\* C10: a run with a valid count, whose user eventually types a line of the
\* right length for each sentence, ends with the final report and one
\* result per sampled sentence; the results grow one at a time, the i-th
\* being that of the i-th sentence, and the run never samples again.
C10_Terminates ==
    /\ (pc = "get_sents" /\ ValidCount)
          ~> (pc = "done" /\ Len(results) = sentences)
    /\ [][ \/ results' = results
           \/ /\ Len(results') = Len(results) + 1
              /\ SubSeq(results', 1, Len(results)) = results
              /\ Len(results') = sent_num
              /\ results'[sent_num][2] = Len(Sentence) ]_vars
    /\ [][ pc # "get_sents" => pc' # "get_sents" ]_vars

====
